---- MODULE Spec2Model ----
(***************************************************************************)
(* Model of sgraph-mcp-server: the model cache and load path of the two    *)
(* server variants (server.py + SGraphHelper, server_modular.py +          *)
(* ModelManager + the tools package), the tool boundary of every           *)
(* operation, and the                                                      *)
(* dependency-chain walk.                                                  *)
(***************************************************************************)
EXTENDS Integers, Sequences, FiniteSets, TLC

VARIABLES impl, models, pc, lockHolder, waiters, abandoned,
          issued, gone, produced, calls, event,
          cphase, cgraph, ctyped, cdir, cmax, cstart, stack, visited, expanded,
          expandedAt, allDeps, chain,
          tparent, tname, ttype, tassocs, aop, aresult

cacheVars == <<impl, models, pc, lockHolder, waiters, abandoned,
               issued, gone, produced, calls, event>>
chainVars == <<cphase, cgraph, ctyped, cdir, cmax, cstart, stack, visited, expanded,
               expandedAt, allDeps, chain>>
analysisVars == <<tparent, tname, ttype, tassocs, aop, aresult>>
vars == <<cacheVars, chainVars, analysisVars>>

(***************************************************************************)
(* Bounds.                                                                 *)
(***************************************************************************)
NumTasks == 2
MaxCalls == 2
NumElements == 3
MaxEdges == 3
MaxDepthArg == 1
MaxAssocs == 2
MaxPaths == 2

Tasks == 1..NumTasks
NoTask == 0
HandleIds == 1..MaxCalls
NoHandle == 0

\* Paths a caller may pass to the load tool: empty, containing "..", plain.
Paths == {"", "/m/../a.xml", "/m/a.xml"}
IsEmptyPath(p) == p = ""
HasDotDot(p) == p = "/m/../a.xml"

\* A loaded graph object: obj is the identity of the object the loader built
\* (objects are numbered as they are built), root tells whether rootNode is
\* set.
NoModel == [obj |-> 0, root |-> FALSE]
Graph(n, r) == [obj |-> n, root |-> r]

\* What the last step did and, when it completed an operation, what the
\* operation returned: kind "ok" (success payload), "error" ({error: message})
\* or "raised" (an exception left the tool function); handle is the handle
\* passed or returned, traversed tells whether the graph was accessed, cause
\* is what happened to a load: "missing" (an os.path.exists check returned
\* False), "timeout" (wait_for timed out), "loader_raised", or "none";
\* direction is the direction argument of a dependency-chain call.
NoEvent == [op |-> "init", handle |-> NoHandle, kind |-> "none",
            err |-> "", retBool |-> FALSE, retCount |-> 0, traversed |-> FALSE,
            cause |-> "none", direction |-> ""]
Step == [NoEvent EXCEPT !.op = "step"]
Ok(op, h, tr) ==
    [NoEvent EXCEPT !.op = op, !.kind = "ok", !.handle = h, !.traversed = tr]
Error(op, msg, h, tr) ==
    [NoEvent EXCEPT !.op = op, !.kind = "error", !.err = msg, !.handle = h,
                    !.traversed = tr]
Raised(op, exc, h, tr) ==
    [NoEvent EXCEPT !.op = op, !.kind = "raised", !.err = exc, !.handle = h,
                    !.traversed = tr]

(***************************************************************************)
(* The cache dictionary (_models) and its operations.                      *)
(***************************************************************************)
EmptyCache == [h \in {} |-> NoModel]

\* dict.get(model_id): the graph, or None.
GetModel(m, h) == IF h \in DOMAIN m THEN m[h] ELSE NoModel

\* Variant: the assignment replaces the dictionary by one holding the new entry.
StoreModelReset(m, h, g) == [x \in {h} |-> g]

\* self._models[model_id] = model
StoreModel(m, h, g) == [x \in DOMAIN m \cup {h} |-> IF x = h THEN g ELSE m[x]]

\* Variant: an identifier drawn without regard to the ones generated before.
NanoidAny(used) == HandleIds

\* nanoid.generate(size=24): 24 random characters of a 64-character alphabet;
\* modelled by its contract, an identifier not generated before.
NanoidGenerate(used) == HandleIds \ used

\* list_models: handle -> summary.
ListModels(m) ==
    [h \in DOMAIN m |-> [root_name |-> IF m[h].root THEN "root" ELSE "unnamed",
                         children_count |-> IF m[h].root THEN 1 ELSE 0]]

\* Variant: remove_model reports success whatever the handle.
RemoveAlwaysTrue(m, h) == TRUE

\* remove_model: the dictionary afterwards, and the value returned.
RemoveModelCache(m, h) == IF h \in DOMAIN m THEN [x \in DOMAIN m \ {h} |-> m[x]] ELSE m

RemoveModelReturns(m, h) == h \in DOMAIN m

\* clear_cache: the dictionary afterwards, and the value returned.
ClearCacheCache(m) == EmptyCache
ClearCacheReturns(m) == Cardinality(DOMAIN m)

(***************************************************************************)
(* Exceptions of the load path.                                            *)
(***************************************************************************)
\* Variant: the timeout is caught by the generic except clause.
LoadReraiseGeneric(inner) == "RuntimeError"

\* load_sgraph / load_model: what the except clauses re-raise.
LoadReraise(inner) ==
    IF inner = "asyncio.TimeoutError" THEN "TimeoutError" ELSE "RuntimeError"

\* Variant: the tool has no except clause for FileNotFoundError.
LoadToolErrorNoFileNotFound(exc) ==
    IF exc = "TimeoutError" THEN "Loading timeout" ELSE "Loading failed"

\* sgraph_load_model: the message prefix each except clause returns.
LoadToolError(exc) ==
    CASE exc = "FileNotFoundError" -> "File not found"
      [] exc = "TimeoutError" -> "Loading timeout"
      [] OTHER -> "Loading failed"

\* validate_path(path, must_exist=True) as the tool reports it: "" when valid.
ValidatePath(p, exists) ==
    IF IsEmptyPath(p) THEN "Invalid path: Path cannot be empty"
    ELSE IF ~exists THEN "Invalid path: Path does not exist"
    ELSE IF HasDotDot(p) THEN "Invalid path: Path traversal detected"
    ELSE ""

\* os.path.exists: the empty path never exists, any other may or may not.
ExistsOutcomes(p) == IF IsEmptyPath(p) THEN {FALSE} ELSE BOOLEAN

(***************************************************************************)
(* asyncio.Lock (_load_lock) of SGraphHelper.                              *)
(***************************************************************************)
LockFree == lockHolder = NoTask

\* Lock.acquire takes the lock at once only when it is free and nobody waits.
CanAcquireNow == LockFree /\ waiters = <<>>

\* Loader threads running: the awaited ones and the ones abandoned by a timeout.
Awaited == {t \in Tasks : pc[t] = "loading"}
LoadersRunning == Cardinality(Awaited) + abandoned

(***************************************************************************)
(* The graph a dependency-chain call walks: elements 1..NumElements (an    *)
(* element stands for its path) and associations <<from, to>>.             *)
(***************************************************************************)
Elements == 1..NumElements
NoElement == 0
Graphs == {g \in SUBSET (Elements \X Elements) : Cardinality(g) <= MaxEdges}

\* max_depth: None, or an integer.
NoDepth == [set |-> FALSE, val |-> 0]
DepthArgs == {NoDepth} \cup {[set |-> TRUE, val |-> n] : n \in 0..MaxDepthArg}

\* The orders in which a list holding the members of S may enumerate them.
Orderings(S) ==
    {f \in [1..Cardinality(S) -> S] : \A i, j \in DOMAIN f : i # j => f[i] # f[j]}

\* model.findElementFromPath(element_path): the element, or None.
FindElementFromPath(e) == IF e \in Elements THEN e ELSE NoElement

\* Never expanded: the depth recorded for an element the walk did not expand.
NotExpanded == 0 - 1

\* getattr(assoc, 'type', 'unknown'): the value of the association object's
\* attribute named type when the object has one (every association of the
\* graphs drawn here is a "uses" one), else the default.  hasAttr tells
\* whether the objects the loader built carry an attribute of that name.
AssocType(hasAttr) == IF hasAttr THEN "uses" ELSE "unknown"

\* The (neighbour, direction) lists traverse_dependencies may build for e:
\* the outgoing associations, then the incoming ones.  (First the variant
\* that leaves the incoming ones out.)
Outgoing(g, e) == {<<a[2], "outgoing">> : a \in {b \in g : b[1] = e}}
Incoming(g, e) == {<<a[1], "incoming">> : a \in {b \in g : b[2] = e}}
AssociationListsOutgoingOnly(g, e, d) ==
    {o \o <<>> : o \in (IF d \in {"outgoing", "both"} THEN Orderings(Outgoing(g, e)) ELSE {<<>>})}

AssociationLists(g, e, d) ==
    {o \o i : o \in (IF d \in {"outgoing", "both"} THEN Orderings(Outgoing(g, e)) ELSE {<<>>}),
              i \in (IF d \in {"incoming", "both"} THEN Orderings(Incoming(g, e)) ELSE {<<>>})}

\* Variant: the walk has no depth test.
DepthExceededNever(m, depth) == FALSE

\* max_depth is not None and depth > max_depth
DepthExceeded(m, depth) == m.set /\ depth > m.val

\* Variant: the element is put in front of the path.
CurrentPathPrepended(path, e) == <<e>> \o path

\* current_path = path + [element_path]
CurrentPath(path, e) == Append(path, e)

\* Variant: the walk only refuses the elements of the path it came by.
IsVisitedOnPath(e, vis, path) == \E i \in DOMAIN path : path[i] = e

\* element_path in visited
IsVisited(e, vis, path) == e \in vis

(***************************************************************************)
(* The graph the search, subtree, bulk and overview operations read: the   *)
(* unnamed rootNode and below it the elements, each with a parent, a name  *)
(* and a type, and the associations.  An element stands for its path in    *)
(* arguments and results; GetPath gives the path itself, the names from    *)
(* the top-level ancestor down (the text is these, each after a "/").      *)
(***************************************************************************)
RootNode == NumElements + 1

\* An element path that resolves to no element.
UnknownPath == NumElements + 2

\* Element names: one element at most is named External, any other has a
\* name of its own (siblings have different names).
PlainNames == <<"a", "b", "c", "d", "e">>
Trees == {p \in [Elements -> Elements \cup {RootNode}] :
            \A e \in Elements : p[e] = RootNode \/ p[e] < e}
Namings == {[e \in Elements |-> IF e = x THEN "External" ELSE PlainNames[e]] :
              x \in 0..NumElements}
PlainNaming == [e \in Elements |-> PlainNames[e]]

\* Names for the search by attributes: one element at most is named "*".
StarNamings == {[e \in Elements |-> IF e = x THEN "*" ELSE PlainNames[e]] :
                  x \in 0..NumElements}

\* Names as the overview reads them: an element may have no name, and a
\* name may be any text; the children of one element have different names.
OverviewNames == {"a", "b", "", "<unnamed_file>"}
SiblingsDiffer(parent, naming) ==
    \A e, f \in Elements : (e # f /\ parent[e] = parent[f]) => naming[e] # naming[f]
Typings == [Elements -> {"", "file"}]
NoTyping == [e \in Elements |-> ""]
AssocSets == {g \in SUBSET (Elements \X Elements) : Cardinality(g) <= MaxAssocs}

\* element.name, element.getType(), element.children, element.getPath()
Name(e) == IF e = RootNode THEN "" ELSE tname[e]
GetType(e) == IF e = RootNode THEN "" ELSE ttype[e]
Children(e) == {c \in Elements : tparent[c] = e}
RECURSIVE GetPath(_)
GetPath(e) == IF e = RootNode THEN <<>> ELSE Append(GetPath(tparent[e]), tname[e])

\* element.outgoing, element.incoming
OutgoingOf(e) == {a \in tassocs : a[1] = e}
IncomingOf(e) == {a \in tassocs : a[2] = e}

\* The list a collection is enumerated as (a children list, the iteration
\* of a set): its members, each once.
RECURSIVE ListOf(_)
ListOf(S) ==
    IF S = {} THEN <<>>
    ELSE LET x == CHOOSE y \in S : TRUE IN <<x>> \o ListOf(S \ {x})

\* No search or analysis call is made.
NoResult == [op |-> "none"]
AnalysisIdle ==
    /\ tparent = [e \in Elements |-> RootNode]
    /\ tname = PlainNaming
    /\ ttype = NoTyping
    /\ tassocs = {}
    /\ aop = "none"
    /\ aresult = NoResult

(***************************************************************************)
(* Initial state.                                                          *)
(***************************************************************************)
\* No dependency-chain call is made.
ChainIdle ==
    /\ cphase = "off" /\ cgraph = {} /\ ctyped = FALSE /\ cdir = "outgoing"
    /\ cmax = NoDepth /\ cstart = 0
    /\ stack = <<>> /\ visited = {} /\ expanded = [e \in Elements |-> 0]
    /\ expandedAt = [e \in Elements |-> NotExpanded]
    /\ allDeps = <<>> /\ chain = <<>>

Init ==
    /\ impl \in {"server", "modular"}
    /\ models = EmptyCache
    /\ pc = [t \in Tasks |-> "idle"]
    /\ lockHolder = NoTask
    /\ waiters = <<>>
    /\ abandoned = 0
    /\ issued = {}
    /\ gone = {}
    /\ produced = [h \in HandleIds |-> NoModel]
    /\ calls = 0
    /\ event = NoEvent
    /\ ChainIdle
    /\ AnalysisIdle

(***************************************************************************)
(* server.py + SGraphHelper.load_sgraph: the load tool, one action per     *)
(* stretch of code between two suspension points.                          *)
(***************************************************************************)
\* The tool function of task t returns r (or lets the exception r names out).
Finish(t, r) ==
    /\ pc' = [pc EXCEPT ![t] = "idle"]
    /\ event' = r

\* sgraph_load_model up to its settle sleep.  Nothing reads the path before
\* load_sgraph does, so the path of the call is drawn there.
ServerLoadCall(t) ==
    /\ impl = "server"
    /\ pc[t] = "idle"
    /\ calls < MaxCalls
    /\ calls' = calls + 1
    /\ pc' = [pc EXCEPT ![t] = "settle"]
    /\ event' = Step
    /\ UNCHANGED <<impl, models, lockHolder, waiters, abandoned, issued, gone, produced>>

\* load_sgraph from its entry to its debug sleep: the existence check.
HelperEnter(t, p) ==
    /\ impl = "server"
    /\ pc[t] = "settle"
    /\ \E e \in ExistsOutcomes(p) :
         IF ~e
         THEN Finish(t, [Error("load", LoadToolError("FileNotFoundError"), NoHandle, FALSE)
                           EXCEPT !.cause = "missing"])
         ELSE /\ pc' = [pc EXCEPT ![t] = "debugsleep"]
              /\ event' = Step
    /\ UNCHANGED <<impl, models, lockHolder, waiters, abandoned, issued, gone, produced, calls>>

\* async with self._load_lock: taken at once and the loader thread started,
\* or the task queues on the lock.
HelperLock(t) ==
    /\ impl = "server"
    /\ pc[t] = "debugsleep"
    /\ IF CanAcquireNow
       THEN /\ lockHolder' = t
            /\ pc' = [pc EXCEPT ![t] = "loading"]
            /\ UNCHANGED waiters
       ELSE /\ waiters' = Append(waiters, t)
            /\ pc' = [pc EXCEPT ![t] = "waiting"]
            /\ UNCHANGED lockHolder
    /\ event' = Step
    /\ UNCHANGED <<impl, models, abandoned, issued, gone, produced, calls>>

\* The first waiter is woken by a release, takes the lock and starts the loader.
LockWake(t) ==
    /\ impl = "server"
    /\ pc[t] = "waiting"
    /\ LockFree
    /\ waiters # <<>>
    /\ Head(waiters) = t
    /\ lockHolder' = t
    /\ waiters' = Tail(waiters)
    /\ pc' = [pc EXCEPT ![t] = "loading"]
    /\ event' = Step
    /\ UNCHANGED <<impl, models, abandoned, issued, gone, produced, calls>>

\* The loader returned a graph: the lock is released, an id generated, the
\* graph stored under it and the id returned.
HelperLoaderReturns(t) ==
    /\ impl = "server"
    /\ pc[t] = "loading"
    /\ lockHolder' = NoTask
    /\ \E h \in NanoidGenerate(issued), r \in BOOLEAN :
         LET g == Graph(Cardinality(issued) + 1, r) IN
           /\ models' = StoreModel(models, h, g)
           /\ issued' = issued \cup {h}
           /\ produced' = [produced EXCEPT ![h] = g]
           /\ Finish(t, Ok("load", h, FALSE))
    /\ UNCHANGED <<impl, waiters, abandoned, gone, calls>>

\* The loader raised: the lock is released, RuntimeError reaches the tool.
HelperLoaderRaises(t) ==
    /\ impl = "server"
    /\ pc[t] = "loading"
    /\ lockHolder' = NoTask
    /\ Finish(t, [Error("load", LoadToolError(LoadReraise("Exception")), NoHandle, FALSE)
                     EXCEPT !.cause = "loader_raised"])
    /\ UNCHANGED <<impl, models, waiters, abandoned, issued, gone, produced, calls>>

\* Variant: the timeout leaves the lock with the task.
HelperLoaderTimeoutKeepsLock(t) ==
    /\ impl = "server"
    /\ pc[t] = "loading"
    /\ abandoned' = abandoned + 1
    /\ Finish(t, [Error("load", LoadToolError(LoadReraise("asyncio.TimeoutError")),
                           NoHandle, FALSE)
                     EXCEPT !.cause = "timeout"])
    /\ UNCHANGED <<impl, models, lockHolder, waiters, issued, gone, produced, calls>>

\* wait_for's 60 s passed: the await is cancelled, the lock released and
\* TimeoutError reaches the tool; the loader thread itself keeps running.
HelperLoaderTimeout(t) ==
    /\ impl = "server"
    /\ pc[t] = "loading"
    /\ lockHolder' = NoTask
    /\ abandoned' = abandoned + 1
    /\ Finish(t, [Error("load", LoadToolError(LoadReraise("asyncio.TimeoutError")),
                           NoHandle, FALSE)
                     EXCEPT !.cause = "timeout"])
    /\ UNCHANGED <<impl, models, waiters, issued, gone, produced, calls>>

\* A loader thread nobody awaits any more ends; its result is dropped.
AbandonedLoaderEnds ==
    /\ abandoned > 0
    /\ abandoned' = abandoned - 1
    /\ event' = Step
    /\ UNCHANGED <<impl, models, pc, lockHolder, waiters, issued, gone, produced, calls>>

(***************************************************************************)
(* tools/model_tools.py + ModelManager.load_model.                         *)
(***************************************************************************)
\* sgraph_load_model up to the await of the loader thread: validate_path,
\* then load_model's own existence check (the file may go in between).
ModularLoadCall(t, p) ==
    /\ impl = "modular"
    /\ pc[t] = "idle"
    /\ calls < MaxCalls
    /\ calls' = calls + 1
    /\ \E e1 \in ExistsOutcomes(p), e2 \in ExistsOutcomes(p) :
         IF ValidatePath(p, e1) # ""
         THEN Finish(t, [Error("load", ValidatePath(p, e1), NoHandle, FALSE)
                           EXCEPT !.cause = IF IsEmptyPath(p) \/ e1 THEN "none" ELSE "missing"])
         ELSE IF ~e2
         THEN Finish(t, [Error("load", LoadToolError("FileNotFoundError"), NoHandle, FALSE)
                           EXCEPT !.cause = "missing"])
         ELSE /\ pc' = [pc EXCEPT ![t] = "loading"]
                                  /\ event' = Step
    /\ UNCHANGED <<impl, models, lockHolder, waiters, abandoned, issued, gone, produced>>

ManagerLoaderReturns(t) ==
    /\ impl = "modular"
    /\ pc[t] = "loading"
    /\ \E h \in NanoidGenerate(issued), r \in BOOLEAN :
         LET g == Graph(Cardinality(issued) + 1, r) IN
           /\ models' = StoreModel(models, h, g)
           /\ issued' = issued \cup {h}
           /\ produced' = [produced EXCEPT ![h] = g]
           /\ Finish(t, Ok("load", h, FALSE))
    /\ UNCHANGED <<impl, lockHolder, waiters, abandoned, gone, calls>>

ManagerLoaderRaises(t) ==
    /\ impl = "modular"
    /\ pc[t] = "loading"
    /\ Finish(t, [Error("load", LoadToolError(LoadReraise("Exception")), NoHandle, FALSE)
                     EXCEPT !.cause = "loader_raised"])
    /\ UNCHANGED <<impl, models, lockHolder, waiters, abandoned, issued, gone, produced, calls>>

ManagerLoaderTimeout(t) ==
    /\ impl = "modular"
    /\ pc[t] = "loading"
    /\ abandoned' = abandoned + 1
    /\ Finish(t, [Error("load", LoadToolError(LoadReraise("asyncio.TimeoutError")),
                           NoHandle, FALSE)
                     EXCEPT !.cause = "timeout"])
    /\ UNCHANGED <<impl, models, lockHolder, waiters, issued, gone, produced, calls>>

(***************************************************************************)
(* ModelManager's other cache operations.                                  *)
(***************************************************************************)
RemoveModel(h) ==
    /\ impl = "modular"
    /\ models' = RemoveModelCache(models, h)
    /\ gone' = IF h \in DOMAIN models THEN gone \cup {h} ELSE gone
    /\ produced' = IF h \in DOMAIN models THEN [produced EXCEPT ![h] = NoModel] ELSE produced
    /\ event' = [NoEvent EXCEPT !.op = "remove", !.kind = "ok", !.handle = h,
                                !.retBool = RemoveModelReturns(models, h)]
    /\ UNCHANGED <<impl, pc, lockHolder, waiters, abandoned, issued, calls>>

ClearCache ==
    /\ impl = "modular"
    /\ models' = ClearCacheCache(models)
    /\ gone' = gone \cup DOMAIN models
    /\ produced' = [h \in HandleIds |-> NoModel]
    /\ event' = [NoEvent EXCEPT !.op = "clear", !.kind = "ok",
                                !.retCount = ClearCacheReturns(models)]
    /\ UNCHANGED <<impl, pc, lockHolder, waiters, abandoned, issued, calls>>

ListModelsCall ==
    /\ impl = "modular"
    /\ event' = [NoEvent EXCEPT !.op = "list", !.kind = "ok",
                                !.retCount = Cardinality(DOMAIN ListModels(models))]
    /\ UNCHANGED <<impl, models, pc, lockHolder, waiters, abandoned, issued, gone, produced, calls>>

(***************************************************************************)
(* The query tools.  A query runs without suspension, so it is one step.   *)
(* failAt names where a call into the graph library or the projection      *)
(* raises in a navigation tool: "lookup" (rootNode, findElement),          *)
(* "projection" (element_to_dict, association_to_dict), or "none"; fails   *)
(* tells whether any call inside the try block of a guarded tool raises.   *)
(***************************************************************************)
NavigationOps == {"get_root", "get_element", "get_incoming", "get_outgoing"}
SearchOps == {"search_by_name", "get_by_type", "search_by_attributes"}
AnalysisOps == {"subtree_dependencies", "multiple_elements", "model_overview"}
ValidDirections == {"outgoing", "incoming", "both"}
Directions == ValidDirections \cup {"sideways"}

\* The message of the except clause that guards op.
FailureMessage(op) ==
    CASE op \in SearchOps -> "Search failed"
      [] op = "subtree_dependencies" -> "Subtree dependency analysis failed"
      [] op = "dependency_chain" -> "Dependency chain analysis failed"
      [] op = "multiple_elements" -> "Multiple elements retrieval failed"
      [] OTHER -> "Model overview failed"

\* Variant: the tool goes on without testing the lookup's result.
ModelNeverMissing(g) == FALSE

\* model is None
ModelMissing(g) == g = NoModel

\* sgraph_get_root_element, sgraph_get_element and the two association
\* tools of server.py: no try block.
ServerNavigation(op, h, g, found, failAt) ==
    IF ModelMissing(g) THEN Error(op, "Model not loaded", h, FALSE)
    ELSE IF op = "get_root"
    THEN IF ~g.root \/ failAt # "none"
         THEN Raised(op, "Exception", h, TRUE) ELSE Ok(op, h, TRUE)
    ELSE IF (op = "get_element" /\ ~g.root) \/ failAt = "lookup"
    THEN Raised(op, "Exception", h, TRUE)
    ELSE IF ~found THEN Error(op, "Element not found", h, TRUE)
    ELSE IF failAt = "projection" THEN Raised(op, "Exception", h, TRUE)
    ELSE Ok(op, h, TRUE)

\* The four tools of tools/navigation_tools.py: no try block either.
ModularNavigation(op, h, g, found, failAt) ==
    IF ModelMissing(g) THEN Error(op, "Model not loaded", h, FALSE)
    ELSE IF op = "get_root"
    THEN IF ~g.root THEN Error(op, "No root element found", h, TRUE)
         ELSE IF failAt # "none" THEN Raised(op, "Exception", h, TRUE)
         ELSE Ok(op, h, TRUE)
    ELSE IF failAt = "lookup" THEN Raised(op, "Exception", h, TRUE)
    ELSE IF ~found THEN Error(op, "Element not found", h, TRUE)
    ELSE IF failAt = "projection" THEN Raised(op, "Exception", h, TRUE)
    ELSE Ok(op, h, TRUE)

\* The search, analysis and overview tools of both servers: the service call
\* and the projection are inside try / except Exception.
GuardedQuery(op, h, g, fails) ==
    IF ModelMissing(g) THEN Error(op, "Model not loaded", h, FALSE)
    ELSE IF fails THEN Error(op, FailureMessage(op), h, TRUE)
    ELSE Ok(op, h, TRUE)

\* Variant: the tool has no test of the direction.
DirectionRejectedNever(d) == FALSE

\* sgraph_get_dependency_chain.direction not in valid_directions
DirectionRejected(d) == d \notin ValidDirections

\* sgraph_get_dependency_chain of both servers: the direction is validated
\* before the guarded service call.
DependencyChainQuery(h, g, d, fails) ==
    [(IF ModelMissing(g) THEN Error("dependency_chain", "Model not loaded", h, FALSE)
      ELSE IF DirectionRejected(d)
      THEN Error("dependency_chain", "Invalid direction", h, FALSE)
      ELSE GuardedQuery("dependency_chain", h, g, fails))
     EXCEPT !.direction = d]

QueryFrame == UNCHANGED <<impl, models, pc, lockHolder, waiters, abandoned,
                          issued, gone, produced, calls>>

\* What the calls a navigation tool makes may do, as <<found, failAt>>: none
\* is made without a model, the root tool looks no element up, and otherwise
\* the lookup raises, finds nothing, or finds an element whose projection
\* raises or succeeds.
NavigationOutcomes(op, g) ==
    IF ModelMissing(g) THEN {<<TRUE, "none">>}
    ELSE IF op = "get_root" THEN {<<TRUE, "none">>, <<TRUE, "projection">>}
    ELSE {<<TRUE, "none">>, <<TRUE, "lookup">>, <<FALSE, "none">>, <<TRUE, "projection">>}

\* Whether the service call of a guarded tool raises: it is made only with a
\* model (and, for the dependency chain, a valid direction).
GuardedOutcomes(g, valid) == IF ModelMissing(g) \/ ~valid THEN {FALSE} ELSE BOOLEAN

QueryNavigation(op, h) ==
    /\ \E o \in NavigationOutcomes(op, GetModel(models, h)) :
         event' = IF impl = "server"
                  THEN ServerNavigation(op, h, GetModel(models, h), o[1], o[2])
                  ELSE ModularNavigation(op, h, GetModel(models, h), o[1], o[2])
    /\ QueryFrame

QueryGuarded(op, h) ==
    /\ \E fails \in GuardedOutcomes(GetModel(models, h), TRUE) :
         event' = GuardedQuery(op, h, GetModel(models, h), fails)
    /\ QueryFrame

QueryDependencyChain(h, d) ==
    /\ \E fails \in GuardedOutcomes(GetModel(models, h), ~DirectionRejected(d)) :
         event' = DependencyChainQuery(h, GetModel(models, h), d, fails)
    /\ QueryFrame

(***************************************************************************)
(* The two servers: every tool and cache operation, interleaved.           *)
(***************************************************************************)
Next ==
    \/ \E t \in Tasks : ServerLoadCall(t) /\ UNCHANGED <<chainVars, analysisVars>>
    \/ \E t \in Tasks, p \in Paths : HelperEnter(t, p) /\ UNCHANGED <<chainVars, analysisVars>>
    \/ \E t \in Tasks : HelperLock(t) /\ UNCHANGED <<chainVars, analysisVars>>
    \/ \E t \in Tasks : LockWake(t) /\ UNCHANGED <<chainVars, analysisVars>>
    \/ \E t \in Tasks : HelperLoaderReturns(t) /\ UNCHANGED <<chainVars, analysisVars>>
    \/ \E t \in Tasks : HelperLoaderRaises(t) /\ UNCHANGED <<chainVars, analysisVars>>
    \/ \E t \in Tasks : HelperLoaderTimeout(t) /\ UNCHANGED <<chainVars, analysisVars>>
    \/ AbandonedLoaderEnds /\ UNCHANGED <<chainVars, analysisVars>>
    \/ \E t \in Tasks, p \in Paths : ModularLoadCall(t, p) /\ UNCHANGED <<chainVars, analysisVars>>
    \/ \E t \in Tasks : ManagerLoaderReturns(t) /\ UNCHANGED <<chainVars, analysisVars>>
    \/ \E t \in Tasks : ManagerLoaderRaises(t) /\ UNCHANGED <<chainVars, analysisVars>>
    \/ \E t \in Tasks : ManagerLoaderTimeout(t) /\ UNCHANGED <<chainVars, analysisVars>>
    \/ \E h \in HandleIds : RemoveModel(h) /\ UNCHANGED <<chainVars, analysisVars>>
    \/ ClearCache /\ UNCHANGED <<chainVars, analysisVars>>
    \/ ListModelsCall /\ UNCHANGED <<chainVars, analysisVars>>
    \/ \E op \in NavigationOps, h \in HandleIds :
          QueryNavigation(op, h) /\ UNCHANGED <<chainVars, analysisVars>>
    \/ \E op \in SearchOps \cup AnalysisOps, h \in HandleIds :
          QueryGuarded(op, h) /\ UNCHANGED <<chainVars, analysisVars>>
    \/ \E h \in HandleIds, d \in Directions :
          QueryDependencyChain(h, d) /\ UNCHANGED <<chainVars, analysisVars>>

Spec == Init /\ [][Next]_vars

\* A step of the load request of task t once it is issued: the event loop
\* resumes a coroutine that can run (the sleeps end, a woken waiter takes
\* the lock), and the await of the loader ends with its result, its
\* exception or the timeout.
LoadStep(t) ==
    /\ \/ \E p \in Paths : HelperEnter(t, p)
       \/ HelperLock(t)
       \/ LockWake(t)
       \/ HelperLoaderReturns(t)
       \/ HelperLoaderRaises(t)
       \/ HelperLoaderTimeout(t)
    /\ UNCHANGED <<chainVars, analysisVars>>

\* server.py serving load requests only, under a fair event loop: no
\* issued load request is left waiting forever for a step it can take.
InitFair == Init /\ impl = "server"
NextFair ==
    \/ \E t \in Tasks : ServerLoadCall(t) /\ UNCHANGED <<chainVars, analysisVars>>
    \/ \E t \in Tasks : LoadStep(t)
    \/ AbandonedLoaderEnds /\ UNCHANGED <<chainVars, analysisVars>>
SpecFair == InitFair /\ [][NextFair]_vars /\ \A t \in Tasks : WF_vars(LoadStep(t))

(***************************************************************************)
(* get_dependency_chain (DependencyService and SGraphHelper alike): the    *)
(* recursion of traverse_dependencies on an explicit stack.  A frame is    *)
(* one activation: its element, depth, current_path and the associations   *)
(* its loop has still to process.                                          *)
(***************************************************************************)
CacheIdle ==
    /\ impl = "modular"
    /\ models = EmptyCache
    /\ pc = [t \in Tasks |-> "idle"]
    /\ lockHolder = NoTask
    /\ waiters = <<>>
    /\ abandoned = 0
    /\ issued = {}
    /\ gone = {}
    /\ produced = [h \in HandleIds |-> NoModel]
    /\ calls = 0
    /\ event = NoEvent

\* The walk does not depend on the type read from an association, so the
\* graphs here are all of one kind in that respect (InitAnalysis draws both).
InitChain ==
    /\ CacheIdle
    /\ AnalysisIdle
    /\ cphase = "idle"
    /\ cgraph \in Graphs
    /\ ctyped = FALSE
    /\ cstart \in Elements \cup {UnknownPath}
    /\ cdir \in ValidDirections
    /\ cmax \in DepthArgs
    /\ stack = <<>>
    /\ visited = {}
    /\ expanded = [e \in Elements |-> 0]
    /\ expandedAt = [e \in Elements |-> NotExpanded]
    /\ allDeps = <<>>
    /\ chain = <<>>

\* traverse_dependencies(e, depth, path) up to its loop: the two early
\* returns, else the element is marked and its activation pushed on stk.
Enter(stk, e, depth, path) ==
    IF DepthExceeded(cmax, depth) \/ IsVisited(e, visited, path)
    THEN /\ stack' = stk
         /\ UNCHANGED <<visited, expanded, expandedAt>>
    ELSE /\ visited' = visited \cup {e}
         /\ expanded' = [expanded EXCEPT ![e] = @ + 1]
         /\ expandedAt' = [expandedAt EXCEPT ![e] = depth]
         /\ \E todo \in AssociationLists(cgraph, e, cdir) :
              stack' = <<[elem |-> e, depth |-> depth, path |-> CurrentPath(path, e),
                          todo |-> todo]>> \o stk

\* The call: the start element is looked up and the walk entered at depth 0.
ChainCall ==
    /\ cphase = "idle"
    /\ IF FindElementFromPath(cstart) = NoElement
       THEN /\ cphase' = "done"
            /\ UNCHANGED <<stack, visited, expanded, expandedAt>>
       ELSE /\ Enter(<<>>, cstart, 0, <<>>)
            /\ cphase' = "running"
    /\ UNCHANGED <<cgraph, ctyped, cdir, cmax, cstart, allDeps, chain>>

\* One round of the loop of the innermost activation: the dependency is
\* recorded and the walk entered at the neighbour.
ChainStep ==
    /\ cphase = "running"
    /\ stack # <<>>
    /\ Head(stack).todo # <<>>
    /\ LET top == Head(stack)
           nb == Head(top.todo)
           rest == <<[top EXCEPT !.todo = Tail(top.todo)]>> \o Tail(stack)
       IN /\ allDeps' = Append(allDeps,
                 [from |-> top.elem, to |-> nb[1], direction |-> nb[2],
                  type |-> AssocType(ctyped), depth |-> top.depth])
          /\ Enter(rest, nb[1], top.depth + 1, top.path)
    /\ UNCHANGED <<cphase, cgraph, ctyped, cdir, cmax, cstart, chain>>

\* The loop of the innermost activation is over: its chain record is
\* appended unless it is the start element's, and it returns.
ChainReturn ==
    /\ cphase = "running"
    /\ stack # <<>>
    /\ Head(stack).todo = <<>>
    /\ LET top == Head(stack)
       IN chain' = IF Len(top.path) > 1
                   THEN Append(chain, [path |-> top.path, depth |-> top.depth])
                   ELSE chain
    /\ stack' = Tail(stack)
    /\ UNCHANGED <<cphase, cgraph, ctyped, cdir, cmax, cstart, visited, expanded,
                   expandedAt, allDeps>>

\* The outermost activation has returned: result["chain"] is set and the
\* result returned.
ChainFinish ==
    /\ cphase = "running"
    /\ stack = <<>>
    /\ cphase' = "done"
    /\ UNCHANGED <<cgraph, ctyped, cdir, cmax, cstart, stack, visited, expanded,
                   expandedAt, allDeps, chain>>

NextChain ==
    \/ ChainCall /\ UNCHANGED <<cacheVars, analysisVars>>
    \/ ChainStep /\ UNCHANGED <<cacheVars, analysisVars>>
    \/ ChainReturn /\ UNCHANGED <<cacheVars, analysisVars>>
    \/ ChainFinish /\ UNCHANGED <<cacheVars, analysisVars>>

\* A call that has started runs on: nothing suspends it.
SpecChain == InitChain /\ [][NextChain]_vars /\ WF_vars(NextChain)

\* The walk with max_depth set, on graphs of one element more and one
\* association more: a start element and three others, which lets an
\* element be reached both directly and by way of two others.
ExtraElement == NumElements + 3
ChainNodes == Elements \cup {ExtraElement}
OrderGraphs == {g \in SUBSET {a \in ChainNodes \X ChainNodes : a[1] # a[2]} :
                  Cardinality(g) <= MaxEdges + 1}
InitOrder ==
    /\ CacheIdle
    /\ AnalysisIdle
    /\ cphase = "idle"
    /\ cgraph \in OrderGraphs
    /\ ctyped = FALSE
    /\ cstart = 1
    /\ cdir \in ValidDirections
    /\ cmax \in {[set |-> TRUE, val |-> n] : n \in 0..(MaxDepthArg + 1)}
    /\ stack = <<>>
    /\ visited = {}
    /\ expanded = [e \in ChainNodes |-> 0]
    /\ expandedAt = [e \in ChainNodes |-> NotExpanded]
    /\ allDeps = <<>>
    /\ chain = <<>>

SpecOrder == InitOrder /\ [][NextChain]_vars

(***************************************************************************)
(* get_subtree_dependencies (DependencyService and SGraphHelper alike).    *)
(* Dependency records are <<from, to>>; their type field is left out.      *)
(***************************************************************************)
\* "/External/" in path
HasExternalSegment(path) == \E i \in 1..(Len(path) - 1) : path[i] = "External"

\* not include_external and "/External/" in the path of e
SkipExternal(include_external, e) ==
    ~include_external /\ HasExternalSegment(GetPath(e))

\* Variant: the children are pushed with the depth of their parent.
ChildFramesSameDepth(e, depth) ==
    LET kids == ListOf(Children(e)) IN [i \in 1..Len(kids) |-> <<kids[i], depth>>]

\* stack.append((child, depth + 1)) for each child of element
ChildFrames(e, depth) ==
    LET kids == ListOf(Children(e)) IN [i \in 1..Len(kids) |-> <<kids[i], depth + 1>>]

\* The while loop that collects subtree_elements: an entry is popped,
\* dropped when its depth exceeds max_depth, else added and its children
\* pushed.
RECURSIVE SubtreeElements(_, _, _)
SubtreeElements(stk, acc, m) ==
    IF stk = <<>> THEN acc
    ELSE LET top == Head(stk)
         IN IF DepthExceeded(m, top[2])
            THEN SubtreeElements(Tail(stk), acc, m)
            ELSE SubtreeElements(ChildFrames(top[1], top[2]) \o Tail(stk),
                                 acc \cup {top[1]}, m)

\* Variant: no path is taken to be one of the subtree's.
InSubtreeNever(e, paths) == FALSE

\* the path of e in subtree_paths
InSubtree(e, paths) == GetPath(e) \in paths

\* What the two association loops append for one subtree element to the
\* collection named kind.
DepsOfElement(kind, e, paths, include_external) ==
    CASE kind = "internal" ->
           SelectSeq(ListOf(OutgoingOf(e)),
                     LAMBDA a : ~SkipExternal(include_external, a[2])
                                /\ InSubtree(a[2], paths))
      [] kind = "outgoing" ->
           SelectSeq(ListOf(OutgoingOf(e)),
                     LAMBDA a : ~SkipExternal(include_external, a[2])
                                /\ ~InSubtree(a[2], paths))
      [] OTHER ->
           SelectSeq(ListOf(IncomingOf(e)),
                     LAMBDA a : ~SkipExternal(include_external, a[1])
                                /\ ~InSubtree(a[1], paths))

\* The loop over subtree_elements, for one collection.
RECURSIVE Dependencies(_, _, _, _)
Dependencies(kind, elems, paths, include_external) ==
    IF elems = <<>> THEN <<>>
    ELSE DepsOfElement(kind, Head(elems), paths, include_external)
           \o Dependencies(kind, Tail(elems), paths, include_external)

GetSubtreeDependencies(root_path, include_external, max_depth) ==
    LET root_element == FindElementFromPath(root_path)
        subtree_elements ==
            IF root_element = NoElement THEN {}
            ELSE SubtreeElements(<<<<root_element, 0>>>>, {}, max_depth)
        subtree_paths == {GetPath(e) : e \in subtree_elements}
        elems == ListOf(subtree_elements)
    IN [op |-> "subtree_dependencies", path |-> root_path,
        include_external |-> include_external, max_depth |-> max_depth,
        kind |-> "ok",
        subtree_elements |-> elems,
        internal_dependencies |->
            Dependencies("internal", elems, subtree_paths, include_external),
        incoming_dependencies |->
            Dependencies("incoming", elems, subtree_paths, include_external),
        outgoing_dependencies |->
            Dependencies("outgoing", elems, subtree_paths, include_external)]

(***************************************************************************)
(* get_multiple_elements (DependencyService and SGraphHelper alike).       *)
(* An element of the result stands for its dictionary.                     *)
(***************************************************************************)
PathLists == UNION {[1..n -> Elements \cup {UnknownPath}] : n \in 0..MaxPaths}

\* Variant: a path that resolves to no element is passed over.
LookupIntoSkipsMiss(res, path) ==
    LET element == FindElementFromPath(path)
    IN IF element = NoElement THEN res
       ELSE [res EXCEPT !.elements = Append(@, element), !.found_count = @ + 1]

\* One round of the loop over element_paths.
LookupInto(res, path) ==
    LET element == FindElementFromPath(path)
    IN IF element = NoElement
       THEN [res EXCEPT !.not_found = Append(@, path)]
       ELSE [res EXCEPT !.elements = Append(@, element), !.found_count = @ + 1]

RECURSIVE MultipleElementsLoop(_, _)
MultipleElementsLoop(paths, res) ==
    IF paths = <<>> THEN res
    ELSE MultipleElementsLoop(Tail(paths), LookupInto(res, Head(paths)))

GetMultipleElements(element_paths) ==
    MultipleElementsLoop(element_paths,
        [op |-> "multiple_elements", paths |-> element_paths, kind |-> "ok",
         requested_count |-> Len(element_paths), found_count |-> 0,
         elements |-> <<>>, not_found |-> <<>>])

(***************************************************************************)
(* get_model_overview (OverviewService and SGraphHelper alike): the        *)
(* recursion of build_tree_structure on an explicit stack, with the        *)
(* statistics it accumulates.                                              *)
(***************************************************************************)
\* max_depth: int
OverviewDepths == NotExpanded..(MaxDepthArg + 1)

NoCounts == [k \in {} |-> 0]

\* Variant: the counter of a key is set, not incremented.
AddOneResets(counts, k) == [x \in DOMAIN counts \cup {k} |-> IF x = k THEN 1 ELSE counts[x]]

\* if k not in counts: counts[k] = 0; counts[k] += 1
AddOne(counts, k) ==
    [x \in DOMAIN counts \cup {k} |->
        IF x = k THEN (IF k \in DOMAIN counts THEN counts[k] ELSE 0) + 1 ELSE counts[x]]

\* element.getType() or "unknown"
TypeOrUnknown(e) == IF GetType(e) = "" THEN "unknown" ELSE GetType(e)

\* Variant: the children are still emitted at max_depth.
DescendIntoInclusive(current_depth, max_depth) == current_depth <= max_depth

\* if current_depth < max_depth
DescendInto(current_depth, max_depth) == current_depth < max_depth

\* build_tree_structure(child, current_depth + 1) for each child, made only
\* when current_depth < max_depth.
OverviewChildren(element, current_depth, max_depth) ==
    IF DescendInto(current_depth, max_depth)
    THEN LET kids == ListOf(Children(element))
         IN [i \in 1..Len(kids) |-> <<kids[i], current_depth + 1>>]
    ELSE <<>>

RECURSIVE BuildTreeStructure(_, _, _)
BuildTreeStructure(stk, acc, max_depth) ==
    IF stk = <<>> THEN acc
    ELSE LET element == Head(stk)[1]
             current_depth == Head(stk)[2]
         IN BuildTreeStructure(
                OverviewChildren(element, current_depth, max_depth) \o Tail(stk),
                [acc EXCEPT !.total_elements = @ + 1,
                            !.depth_counts = AddOne(@, current_depth),
                            !.type_distribution = AddOne(@, TypeOrUnknown(element))],
                max_depth)

\* child.name or f"<unnamed_{child.getType()}>": the key of a child in the
\* children map of its parent's descriptor.
ChildName(child) ==
    IF Name(child) # "" THEN Name(child)
    ELSE IF GetType(child) = "file" THEN "<unnamed_file>" ELSE "<unnamed_>"

\* The child whose descriptor a key of the children map holds once the loop
\* over kids is done: the last one assigned under that key.
LastAssigned(kids, key) ==
    kids[CHOOSE i \in DOMAIN kids :
            /\ ChildName(kids[i]) = key
            /\ \A j \in DOMAIN kids : ChildName(kids[j]) = key => j <= i]

\* The descriptor build_tree_structure returns (include_counts left out):
\* the four fixed keys, then either the children map or, for an element
\* with children, has_more_children.
RECURSIVE TreeStructure(_, _, _)
TreeStructure(element, current_depth, max_depth) ==
    LET structure == [name |-> Name(element), path |-> GetPath(element),
                      type |-> TypeOrUnknown(element), depth |-> current_depth]
        kids == ListOf(Children(element))
    IN IF DescendInto(current_depth, max_depth)
       THEN structure @@
            [children |->
                [key \in {ChildName(kids[i]) : i \in DOMAIN kids} |->
                    TreeStructure(LastAssigned(kids, key), current_depth + 1, max_depth)]]
       ELSE IF Len(kids) > 0
       THEN structure @@ [has_more_children |-> Len(kids)]
       ELSE structure

GetModelOverview(max_depth) ==
    BuildTreeStructure(<<<<RootNode, 0>>>>,
        [op |-> "model_overview", max_depth |-> max_depth, kind |-> "ok",
         total_elements |-> 0, depth_counts |-> NoCounts,
         type_distribution |-> NoCounts,
         tree_structure |-> TreeStructure(RootNode, 0, max_depth)],
        max_depth)

(***************************************************************************)
(* The three searches (SearchService and SGraphHelper alike).              *)
(***************************************************************************)
\* scope_path, element_type: None
NoScope == 0
NoTypeFilter == "None"
ScopeArgs == {NoScope} \cup Elements \cup {UnknownPath}
TypeFilters == {NoTypeFilter, "file"}
ElementTypes == {"file", "dir"}

\* Text as the regular-expression engine reads it: a sequence of
\* characters.  The names drawn have one character, but for External.
ExternalChars == <<"E", "x", "t", "e", "r", "n", "a", "l">>
NameChars(name) ==
    IF name = "" THEN <<>>
    ELSE IF name = "External" THEN ExternalChars
    ELSE <<name>>

\* pattern: a letter, or made of the characters that regular expressions
\* and globs read differently.
Patterns == {<<>>, <<".">>, <<"a">>, <<"a", "*">>, <<"*", "a">>, <<"?">>, ExternalChars}

Quantifiers == {"*", "?"}
SpecialChars == {".", "*", "?", "\\"}

\* re.compile(pattern), for patterns of letters, ".", "*", "?" and escaped
\* characters: the atoms with their quantifiers, or the failure re.error
\* ("nothing to repeat", "multiple repeat", "bad escape (end of pattern)").
\* A "?" after a quantifier makes it lazy.
NotCompiled == [ok |-> FALSE, toks |-> <<>>]
RECURSIVE Compile(_)
Compile(pattern) ==
    IF pattern = <<>> THEN [ok |-> TRUE, toks |-> <<>>]
    ELSE IF Head(pattern) \in Quantifiers THEN NotCompiled
    ELSE IF Head(pattern) = "\\" /\ Len(pattern) = 1 THEN NotCompiled
    ELSE LET escaped == Head(pattern) = "\\"
             char == IF escaped THEN pattern[2] ELSE pattern[1]
             rest == SubSeq(pattern, (IF escaped THEN 3 ELSE 2), Len(pattern))
             quant == IF rest # <<>> /\ Head(rest) \in Quantifiers THEN Head(rest) ELSE ""
             rest2 == IF quant = "" THEN rest ELSE Tail(rest)
             rest3 == IF quant # "" /\ rest2 # <<>> /\ Head(rest2) = "?"
                      THEN Tail(rest2) ELSE rest2
         IN IF quant # "" /\ rest3 # <<>> /\ Head(rest3) \in Quantifiers
            THEN NotCompiled
            ELSE LET tail == Compile(rest3)
                 IN IF ~tail.ok THEN NotCompiled
                    ELSE [ok |-> TRUE,
                          toks |-> <<[char |-> char, any |-> ~escaped /\ char = ".",
                                      quant |-> quant]>> \o tail.toks]

\* The compiled pattern matches at the start of text.
RECURSIVE MatchHere(_, _)
MatchHere(toks, text) ==
    IF toks = <<>> THEN TRUE
    ELSE LET t == Head(toks)
             one == text # <<>> /\ (t.any \/ Head(text) = t.char)
         IN CASE t.quant = "*" ->
                   MatchHere(Tail(toks), text) \/ (one /\ MatchHere(toks, Tail(text)))
              [] t.quant = "?" ->
                   MatchHere(Tail(toks), text) \/ (one /\ MatchHere(Tail(toks), Tail(text)))
              [] OTHER -> one /\ MatchHere(Tail(toks), Tail(text))

\* re.compile(pattern).search(text), pattern one that compiles: a match
\* at some position of text.
RegexSearch(pattern, text) ==
    \E i \in 1..(Len(text) + 1) :
       MatchHere(Compile(pattern).toks, SubSeq(text, i, Len(text)))

\* re.escape(pattern)
RECURSIVE ReEscape(_)
ReEscape(pattern) ==
    IF pattern = <<>> THEN <<>>
    ELSE (IF Head(pattern) \in SpecialChars THEN <<"\\", Head(pattern)>>
          ELSE <<Head(pattern)>>) \o ReEscape(Tail(pattern))

\* pattern.replace("*", ".*").replace("?", ".")
RECURSIVE GlobPattern(_)
GlobPattern(pattern) ==
    IF pattern = <<>> THEN <<>>
    ELSE (CASE Head(pattern) = "*" -> <<".", "*">>
            [] Head(pattern) = "?" -> <<".">>
            [] OTHER -> <<Head(pattern)>>) \o GlobPattern(Tail(pattern))

\* validate_pattern(pattern)[0]
ValidatePattern(pattern) == pattern # <<>> /\ Compile(pattern).ok

\* try: re.compile(pattern) except re.error: the glob translation instead
CompileOrGlob(pattern) == IF Compile(pattern).ok THEN pattern ELSE GlobPattern(pattern)

\* The text SearchService.search_elements_by_name compiles: a pattern that
\* validate_pattern rejects is escaped first.
ServicePattern(pattern) ==
    CompileOrGlob(IF ValidatePattern(pattern) THEN pattern ELSE ReEscape(pattern))

\* The text SGraphHelper.search_elements_by_name compiles.
HelperPattern(pattern) == CompileOrGlob(pattern)

\* Variant: a scope that resolves to no element leaves the root as start.
SearchScopeOrRoot(scope_path) ==
    IF scope_path = NoScope \/ FindElementFromPath(scope_path) = NoElement
    THEN RootNode ELSE FindElementFromPath(scope_path)

\* start_element: rootNode, or findElementFromPath(scope_path) when a scope
\* is given (None when it resolves to no element).
SearchScope(scope_path) ==
    IF scope_path = NoScope THEN RootNode ELSE FindElementFromPath(scope_path)

\* The while loop over the stack: the elements in the order they are popped.
RECURSIVE Traverse(_)
Traverse(stk) ==
    IF stk = <<>> THEN <<>>
    ELSE <<Head(stk)>> \o Traverse(ListOf(Children(Head(stk))) \o Tail(stk))

\* Variant: the traversal starts below the scope element.
SearchVisitedBelowScope(scope_path) ==
    IF SearchScope(scope_path) = NoElement THEN <<>>
    ELSE Tail(Traverse(<<SearchScope(scope_path)>>))

\* The elements the loop visits: none when the scope resolves to no
\* element (the early return of the empty results), else the traversal
\* from start_element.
SearchVisited(scope_path) ==
    IF SearchScope(scope_path) = NoElement THEN <<>>
    ELSE Traverse(<<SearchScope(scope_path)>>)

\* Variant: the type filter is not applied.
TypeAccepted(element_type, e) == TRUE

\* element_type is None or element.getType() == element_type
TypeMatches(element_type, e) ==
    element_type = NoTypeFilter \/ GetType(e) = element_type

\* search_elements_by_name of SearchService (variant "service") and of
\* SGraphHelper (variant "helper"): they differ in the text they compile.
SearchVariants == {"service", "helper"}
SearchElementsByName(variant, pattern, element_type, scope_path) ==
    LET regex_pattern == IF variant = "service" THEN ServicePattern(pattern)
                         ELSE HelperPattern(pattern)
    IN [op |-> "search_by_name", variant |-> variant, path |-> scope_path,
        kind |-> "ok", pattern |-> pattern, element_type |-> element_type,
        elements |-> SelectSeq(SearchVisited(scope_path),
            LAMBDA e : RegexSearch(regex_pattern, NameChars(Name(e)))
                       /\ TypeMatches(element_type, e))]

GetElementsByType(element_type, scope_path) ==
    [op |-> "get_by_type", path |-> scope_path, kind |-> "ok",
     element_type |-> element_type,
     elements |-> SelectSeq(SearchVisited(scope_path),
         LAMBDA e : GetType(e) = element_type)]

\* attribute_filters: a dictionary from attribute names to expected values,
\* a value being a string or something else (here the empty list).  Every
\* element object has the attributes name (a string) and children (a
\* list) and none has nosuch.
AttrNames == {"name", "children", "nosuch"}
ExpectedValues ==
    {[kind |-> "str", val |-> v] : v \in {<<".">>, <<"a">>, <<"*">>}}
      \cup {[kind |-> "list", val |-> <<>>]}
AttributeFilters == UNION {[D -> ExpectedValues] : D \in SUBSET AttrNames}

\* Variant: every attribute name is taken to be there.
HasAttrAlways(e, attr_name) == TRUE

\* hasattr(element, attr_name), getattr(element, attr_name)
HasAttr(e, attr_name) == attr_name \in {"name", "children"}
GetAttr(e, attr_name) ==
    IF attr_name = "name" THEN [kind |-> "str", val |-> NameChars(Name(e))]
    ELSE [kind |-> "list", val |-> ListOf(Children(e))]

\* One filter passes: re.search(expected, actual) for two strings, with
\* equality when re.error is raised, else actual_value == expected_value.
FilterPasses(expected_value, actual_value) ==
    IF expected_value.kind = "str" /\ actual_value.kind = "str"
    THEN IF Compile(expected_value.val).ok
         THEN RegexSearch(expected_value.val, actual_value.val)
         ELSE actual_value.val = expected_value.val
    ELSE actual_value = expected_value

\* matches_all after the loop over attribute_filters.items(), which stops
\* at the first filter that fails.
RECURSIVE MatchesAll(_, _, _)
MatchesAll(e, attribute_filters, items) ==
    IF items = <<>> THEN TRUE
    ELSE IF ~HasAttr(e, Head(items)) THEN FALSE
    ELSE IF ~FilterPasses(attribute_filters[Head(items)], GetAttr(e, Head(items)))
    THEN FALSE
    ELSE MatchesAll(e, attribute_filters, Tail(items))

SearchElementsByAttributes(attribute_filters, scope_path) ==
    [op |-> "search_by_attributes", path |-> scope_path, kind |-> "ok",
     filters |-> attribute_filters,
     elements |-> SelectSeq(SearchVisited(scope_path),
         LAMBDA e : MatchesAll(e, attribute_filters,
                               ListOf(DOMAIN attribute_filters)))]

(***************************************************************************)
(* The search and analysis services, each called once on a drawn graph.    *)
(***************************************************************************)
PathArgs == Elements \cup {UnknownPath}

\* The graphs drawn for an operation vary in what the operation reads.
InitAnalysis ==
    /\ CacheIdle
    /\ aresult = NoResult
    /\ \/ /\ aop = "subtree_dependencies"
          /\ tparent \in Trees
          /\ tname \in Namings
          /\ ttype = NoTyping
          /\ tassocs \in AssocSets
          /\ ChainIdle
       \/ /\ aop = "search_by_attributes"
          /\ tparent \in Trees
          /\ tname \in StarNamings
          /\ ttype = NoTyping
          /\ tassocs = {}
          /\ ChainIdle
       \/ /\ aop \in {"search_by_name", "get_by_type", "multiple_elements"}
          /\ tparent \in Trees
          /\ tname \in Namings
          /\ ttype \in Typings
          /\ tassocs = {}
          /\ ChainIdle
       \/ /\ aop = "model_overview"
          /\ tparent \in Trees
          /\ tname \in [Elements -> OverviewNames]
          /\ SiblingsDiffer(tparent, tname)
          /\ ttype \in Typings
          /\ tassocs = {}
          /\ ChainIdle
       \/ /\ aop = "dependency_chain"
          /\ tparent = [e \in Elements |-> RootNode]
          /\ tname = PlainNaming
          /\ ttype = NoTyping
          /\ tassocs \in AssocSets
          /\ cphase = "idle"
          /\ cgraph = tassocs
          /\ ctyped \in BOOLEAN
          /\ cstart \in PathArgs
          /\ cdir \in ValidDirections
          /\ cmax \in DepthArgs
          /\ stack = <<>>
          /\ visited = {}
          /\ expanded = [e \in Elements |-> 0]
          /\ expandedAt = [e \in Elements |-> NotExpanded]
          /\ allDeps = <<>>
          /\ chain = <<>>

SubtreeDependenciesCall ==
    /\ aop = "subtree_dependencies"
    /\ aresult = NoResult
    /\ \E p \in PathArgs, x \in BOOLEAN, m \in DepthArgs :
         aresult' = GetSubtreeDependencies(p, x, m)
    /\ UNCHANGED <<tparent, tname, ttype, tassocs, aop>>

MultipleElementsCall ==
    /\ aop = "multiple_elements"
    /\ aresult = NoResult
    /\ \E ps \in PathLists : aresult' = GetMultipleElements(ps)
    /\ UNCHANGED <<tparent, tname, ttype, tassocs, aop>>

ModelOverviewCall ==
    /\ aop = "model_overview"
    /\ aresult = NoResult
    /\ \E d \in OverviewDepths : aresult' = GetModelOverview(d)
    /\ UNCHANGED <<tparent, tname, ttype, tassocs, aop>>

SearchByNameCall ==
    /\ aop = "search_by_name"
    /\ aresult = NoResult
    /\ \E v \in SearchVariants, p \in Patterns, t \in TypeFilters, sc \in ScopeArgs :
         aresult' = SearchElementsByName(v, p, t, sc)
    /\ UNCHANGED <<tparent, tname, ttype, tassocs, aop>>

GetByTypeCall ==
    /\ aop = "get_by_type"
    /\ aresult = NoResult
    /\ \E t \in ElementTypes, sc \in ScopeArgs : aresult' = GetElementsByType(t, sc)
    /\ UNCHANGED <<tparent, tname, ttype, tassocs, aop>>

SearchByAttributesCall ==
    /\ aop = "search_by_attributes"
    /\ aresult = NoResult
    /\ \E f \in AttributeFilters, sc \in ScopeArgs :
         aresult' = SearchElementsByAttributes(f, sc)
    /\ UNCHANGED <<tparent, tname, ttype, tassocs, aop>>

NextAnalysis ==
    \/ SubtreeDependenciesCall /\ UNCHANGED <<cacheVars, chainVars>>
    \/ MultipleElementsCall /\ UNCHANGED <<cacheVars, chainVars>>
    \/ ModelOverviewCall /\ UNCHANGED <<cacheVars, chainVars>>
    \/ SearchByNameCall /\ UNCHANGED <<cacheVars, chainVars>>
    \/ GetByTypeCall /\ UNCHANGED <<cacheVars, chainVars>>
    \/ SearchByAttributesCall /\ UNCHANGED <<cacheVars, chainVars>>
    \/ ChainCall /\ UNCHANGED <<cacheVars, analysisVars>>
    \/ ChainStep /\ UNCHANGED <<cacheVars, analysisVars>>
    \/ ChainReturn /\ UNCHANGED <<cacheVars, analysisVars>>
    \/ ChainFinish /\ UNCHANGED <<cacheVars, analysisVars>>

SpecAnalysis == InitAnalysis /\ [][NextAnalysis]_vars

\* C3: dependency_chain terminates on every graph, cyclic ones included, for
\* each direction and with or without max_depth, and expands each element at
\* most once.
C3_ChainTerminates ==
    /\ <>(cphase = "done")
    /\ [](\A e \in Elements : expanded[e] <= 1)

C3_Witness ==
    /\ cphase = "done"
    /\ \E a \in cgraph : a[1] = 1 /\ a[2] = 2
    /\ \E a \in cgraph : a[1] = 2 /\ a[2] = 1
    /\ cstart = 1
    /\ visited = {1, 2}
    /\ ~cmax.set

\* C16: with max_depth = d set, no element is expanded deeper than d, every
\* activation, dependency record and chain record has a depth of at most d,
\* and the depth of a dependency record is the depth at which its from
\* element was expanded (0 for the start element).
C16_ChainDepthBounded ==
    cmax.set =>
      /\ \A e \in Elements : expandedAt[e] <= cmax.val
      /\ \A e \in Elements : (expandedAt[e] = NotExpanded) = (e \notin visited)
      /\ cstart \in visited => expandedAt[cstart] = 0
      /\ \A i \in DOMAIN stack :
           stack[i].depth <= cmax.val /\ stack[i].depth = expandedAt[stack[i].elem]
      /\ \A i \in DOMAIN allDeps :
           /\ allDeps[i].depth <= cmax.val
           /\ allDeps[i].depth = expandedAt[allDeps[i].from]
      /\ \A i \in DOMAIN chain :
           /\ chain[i].depth <= cmax.val
           /\ chain[i].depth = Len(chain[i].path) - 1

\* The walk was cut by the depth: 3 is a neighbour of 2 and was not expanded.
C16_Witness ==
    /\ cphase = "done"
    /\ cmax = [set |-> TRUE, val |-> 1]
    /\ cstart = 1 /\ cdir = "outgoing"
    /\ <<1, 2>> \in cgraph /\ <<2, 3>> \in cgraph
    /\ visited = {1, 2}
    /\ \E i \in DOMAIN allDeps :
         allDeps[i].from = 2 /\ allDeps[i].to = 3 /\ allDeps[i].depth = 1

\* C17: on the graph whose only association is B -> C (elements 2 and 3),
\* typed "uses", the call with start B, direction outgoing and max_depth 1
\* returns all_dependencies = [{from B, to C, outgoing, "uses", depth 0}].
C17_ConcreteScenario ==
    (/\ cphase = "done"
     /\ cgraph = {<<2, 3>>}
     /\ cstart = 2 /\ cdir = "outgoing"
     /\ cmax = [set |-> TRUE, val |-> 1]) =>
      allDeps = <<[from |-> 2, to |-> 3, direction |-> "outgoing",
                   type |-> "uses", depth |-> 0]>>

(***************************************************************************)
(* Properties of the load path and the model cache.                        *)
(***************************************************************************)
QueryOps == NavigationOps \cup SearchOps \cup AnalysisOps \cup {"dependency_chain"}

\* C1: under SGraphHelper.load_sgraph at most one loader (parse) thread is in
\* progress at any moment, whatever the outcome of each request.
C1_AtMostOneParseInProgress == impl = "server" => LoadersRunning <= 1

\* C2: under ModelManager.load_model two loader invocations are never in
\* progress at the same time.
C2_ManagerLoadsSerialized == impl = "modular" => Cardinality(Awaited) <= 1

\* C4: no tool operation lets an exception out: every operation returns a
\* success payload or an {error: message} value.
C4_NoExceptionLeavesATool == event.kind # "raised"

\* C5: a handle returned by a successful load maps to the graph that load
\* produced until it is removed or the cache cleared; a handle not cached is
\* not found; list() has a key for exactly the handles get finds.
C5_GetReturnsTheLoadedGraph ==
    /\ \A h \in issued \ gone :
         /\ produced[h] # NoModel
         /\ GetModel(models, h) = produced[h]
    /\ \A h \in HandleIds :
         (h \in gone \/ h \notin issued) => GetModel(models, h) = NoModel
    /\ (event.op = "load" /\ event.kind = "ok") =>
         /\ event.handle \in issued
         /\ produced[event.handle].obj # 0
         /\ GetModel(models, event.handle) = produced[event.handle]
    /\ DOMAIN ListModels(models) = {h \in HandleIds : GetModel(models, h) # NoModel}

C5_Witness ==
    /\ gone # {}
    /\ \E h \in issued \ gone : GetModel(models, h) = produced[h]
    /\ event.op = "remove"

C7_ExplicitRemovalOnly ==
    [][/\ event'.op = "remove" =>
            /\ event'.retBool = (event'.handle \in DOMAIN models)
            /\ DOMAIN models' = DOMAIN models \ {event'.handle}
            /\ \A h \in DOMAIN models' : models'[h] = models[h]
       /\ event'.op = "clear" =>
            /\ event'.retCount = Cardinality(DOMAIN models)
            /\ DOMAIN models' = {}
       /\ event'.op \notin {"remove", "clear"} =>
            \A h \in DOMAIN models : h \in DOMAIN models' /\ models'[h] = models[h]]_vars

C7_Witness ==
    /\ event.op = "remove" /\ event.retBool
    /\ models # EmptyCache

\* C8: a load whose loader ran into the timeout returns the Timeout error
\* value, which no other outcome of a load returns, and adds no entry.
C8_TimeoutIsDistinct ==
    [][event'.op = "load" =>
         /\ event'.cause = "timeout" =>
              /\ event'.kind = "error"
              /\ event'.err = "Loading timeout"
              /\ models' = models
         /\ event'.cause # "timeout" => event'.err # "Loading timeout"]_vars

C8_Witness == event.op = "load" /\ event.cause = "timeout" /\ event.err = "Loading timeout"

\* C9: loading a path that does not exist returns a SourceUnavailable error
\* value, starts no loader and leaves the cache as it was.
SourceUnavailableErrors == {"File not found", "Invalid path: Path does not exist"}

C9_MissingPathIsAnErrorValue ==
    [][(event'.op = "load" /\ event'.cause = "missing") =>
         /\ event'.kind = "error"
         /\ event'.err \in SourceUnavailableErrors
         /\ Awaited' = Awaited
         /\ LoadersRunning' = LoadersRunning
         /\ models' = models]_vars

C9_Witness ==
    /\ event.op = "load" /\ event.cause = "missing"
    /\ event.err = "File not found"
    /\ impl = "modular"

\* C10: a query with a handle that is not cached returns an error value,
\* accesses no graph and leaves the cache as it was.
C10_UnknownHandleIsAnError ==
    [][(event'.op \in QueryOps /\ event'.handle \notin DOMAIN models) =>
         /\ event'.kind = "error"
         /\ event'.err = "Model not loaded"
         /\ ~event'.traversed
         /\ models' = models]_vars

C10_Witness ==
    /\ event.op \in QueryOps
    /\ event.handle \in gone
    /\ event.err = "Model not loaded"
    /\ models # EmptyCache

\* C11: a dependency-chain call whose direction is none of outgoing, incoming
\* and both returns an error value and walks nothing; on a cached handle the
\* error is the invalid-direction one.
C11_InvalidDirectionIsAnError ==
    [][(event'.op = "dependency_chain"
          /\ event'.direction \notin {"outgoing", "incoming", "both"}) =>
         /\ event'.kind = "error"
         /\ ~event'.traversed
         /\ event'.handle \in DOMAIN models => event'.err = "Invalid direction"
         /\ models' = models]_vars

C11_Witness ==
    /\ event.op = "dependency_chain"
    /\ event.direction = "sideways"
    /\ event.handle \in DOMAIN models
    /\ event.err = "Invalid direction"

(***************************************************************************)
(* Properties of the subtree, bulk and overview operations.               *)
(***************************************************************************)
\* The parent-hops from r down to e; NotExpanded when e is not r or below it.
RECURSIVE HopsBelow(_, _)
HopsBelow(r, e) ==
    IF e = r THEN 0
    ELSE IF e = RootNode THEN NotExpanded
    ELSE LET h == HopsBelow(r, tparent[e])
         IN IF h = NotExpanded THEN NotExpanded ELSE h + 1

\* r and the elements below it, as deep as max_depth m allows.
Descendants(r, m) ==
    {e \in Elements : HopsBelow(r, e) # NotExpanded
                        /\ (m.set => HopsBelow(r, e) <= m.val)}

\* e lies below an element named External.
UnderExternal(e) ==
    \E x \in Elements : x # e /\ HopsBelow(x, e) # NotExpanded /\ tname[x] = "External"

Members(list) == {list[i] : i \in DOMAIN list}
NoRepeats(list) == \A i, j \in DOMAIN list : i # j => list[i] # list[j]

\* C13: with include_external = true and S the returned subtree set, each
\* association is listed once and in the right collection: internal are
\* those inside S, outgoing those leaving S, incoming those entering S.
C13_SubtreeDependenciesClassified ==
    (aresult.op = "subtree_dependencies" /\ aresult.include_external) =>
      LET S == Members(aresult.subtree_elements) IN
        /\ Members(aresult.internal_dependencies)
             = {a \in tassocs : a[1] \in S /\ a[2] \in S}
        /\ Members(aresult.outgoing_dependencies)
             = {a \in tassocs : a[1] \in S /\ a[2] \notin S}
        /\ Members(aresult.incoming_dependencies)
             = {a \in tassocs : a[1] \notin S /\ a[2] \in S}
        /\ NoRepeats(aresult.internal_dependencies)
        /\ NoRepeats(aresult.outgoing_dependencies)
        /\ NoRepeats(aresult.incoming_dependencies)
        /\ Members(aresult.internal_dependencies)
             \cup Members(aresult.outgoing_dependencies)
             = UNION {OutgoingOf(e) : e \in S}

C13_Witness ==
    /\ aresult.op = "subtree_dependencies" /\ aresult.include_external
    /\ Len(aresult.internal_dependencies) = 1
    /\ Len(aresult.incoming_dependencies) = 1
    /\ Len(aresult.subtree_elements) = 2

\* C14: with include_external = false no dependency of the three
\* collections has its source or its target under External, whatever the
\* root.
C14_NoExternalEndpoint ==
    (aresult.op = "subtree_dependencies" /\ ~aresult.include_external) =>
      \A a \in Members(aresult.internal_dependencies)
                \cup Members(aresult.incoming_dependencies)
                \cup Members(aresult.outgoing_dependencies) :
         ~UnderExternal(a[1]) /\ ~UnderExternal(a[2])

\* C15: subtree_elements holds, each once, exactly the root and the
\* elements below it whose depth is at most max_depth (all of them when
\* max_depth is unset).
C15_SubtreeSetIsDepthBounded ==
    (aresult.op = "subtree_dependencies" /\ aresult.path \in Elements) =>
      /\ Members(aresult.subtree_elements) = Descendants(aresult.path, aresult.max_depth)
      /\ NoRepeats(aresult.subtree_elements)

C15_Witness ==
    /\ aresult.op = "subtree_dependencies"
    /\ aresult.path = 1
    /\ aresult.max_depth = [set |-> TRUE, val |-> 1]
    /\ tparent[2] = 1 /\ tparent[3] = 2
    /\ Members(aresult.subtree_elements) = {1, 2}

\* C12: a path that resolves to no element yields the empty result of the
\* operation, not an error: no elements from the three searches, four empty
\* collections from subtree_dependencies, an empty chain and no
\* dependencies from dependency_chain.
C12_UnresolvablePathGivesEmptyResult ==
    /\ (aresult.op \in SearchOps /\ aresult.path = UnknownPath) =>
         aresult.kind = "ok" /\ aresult.elements = <<>>
    /\ (aresult.op = "subtree_dependencies" /\ aresult.path = UnknownPath) =>
         /\ aresult.kind = "ok"
         /\ aresult.subtree_elements = <<>>
         /\ aresult.internal_dependencies = <<>>
         /\ aresult.incoming_dependencies = <<>>
         /\ aresult.outgoing_dependencies = <<>>
    /\ (cphase \in {"running", "done"} /\ cstart = UnknownPath) =>
         /\ cphase = "done"
         /\ allDeps = <<>> /\ chain = <<>> /\ visited = {}

\* A search by type with an unresolvable scope, on a graph that has an
\* element of that type.
C12_Witness ==
    /\ aresult.op = "get_by_type"
    /\ aresult.path = UnknownPath
    /\ \E e \in Elements : GetType(e) = aresult.element_type
    /\ aresult.elements = <<>>

\* C18: requested_count is the length of the list of paths, found_count the
\* number of entries of elements, found_count + len(not_found) equals
\* requested_count, and every path of the list is processed: elements and
\* not_found are the resolvable and the unresolvable ones, in order.
C18_MultipleElementsCounts ==
    aresult.op = "multiple_elements" =>
      /\ aresult.requested_count = Len(aresult.paths)
      /\ aresult.found_count = Len(aresult.elements)
      /\ aresult.found_count + Len(aresult.not_found) = aresult.requested_count
      /\ aresult.elements = SelectSeq(aresult.paths, LAMBDA q : q \in Elements)
      /\ aresult.not_found = SelectSeq(aresult.paths, LAMBDA q : q \notin Elements)

C18_Witness ==
    /\ aresult.op = "multiple_elements"
    /\ aresult.paths = <<UnknownPath, 1>>
    /\ aresult.found_count = 1
    /\ aresult.not_found = <<UnknownPath>>

\* The sum of the values of a dictionary of counters.
RECURSIVE SumOf(_)
SumOf(counts) ==
    IF DOMAIN counts = {} THEN 0
    ELSE LET k == CHOOSE x \in DOMAIN counts : TRUE
         IN counts[k] + SumOf([x \in DOMAIN counts \ {k} |-> counts[x]])

\* C19: the values of depth_counts sum to total_elements, and so do the
\* values of type_distribution.
C19_OverviewCountsSum ==
    aresult.op = "model_overview" =>
      /\ SumOf(aresult.depth_counts) = aresult.total_elements
      /\ SumOf(aresult.type_distribution) = aresult.total_elements

C19_Witness ==
    /\ aresult.op = "model_overview"
    /\ aresult.max_depth = 1
    /\ aresult.total_elements = 3
    /\ aresult.depth_counts[1] = 2
    /\ DOMAIN aresult.type_distribution = {"unknown", "file"}

\* C20: the largest key of depth_counts is at most max_depth, for every
\* max_depth the operation accepts.
C20_OverviewDepthBounded ==
    aresult.op = "model_overview" =>
      \A d \in DOMAIN aresult.depth_counts : d <= aresult.max_depth

\* The node descriptors present in a tree, and the element a path names.
RECURSIVE Descriptors(_)
Descriptors(s) ==
    {s} \cup (IF "children" \in DOMAIN s
              THEN UNION {Descriptors(s.children[k]) : k \in DOMAIN s.children}
              ELSE {})

ElementAt(path) == CHOOSE e \in Elements \cup {RootNode} : GetPath(e) = path

\* C21: in the tree of model_overview a descriptor at depth < max_depth has
\* a children map and no has_more_children; a descriptor at depth =
\* max_depth has no children map, and has has_more_children exactly when
\* its element has a child, its value being the number of children.
C21_OverviewDescriptors ==
    aresult.op = "model_overview" =>
      \A s \in Descriptors(aresult.tree_structure) :
         LET n == Cardinality(Children(ElementAt(s.path)))
         IN /\ s.depth < aresult.max_depth =>
                 "children" \in DOMAIN s /\ "has_more_children" \notin DOMAIN s
            /\ s.depth = aresult.max_depth =>
                 /\ "children" \notin DOMAIN s
                 /\ "has_more_children" \in DOMAIN s <=> n >= 1
                 /\ "has_more_children" \in DOMAIN s => s.has_more_children = n

\* An overview of depth 1 whose tree has, at depth 1, a descriptor with a
\* truncation count and one without.
C21_Witness ==
    /\ aresult.op = "model_overview"
    /\ aresult.max_depth = 1
    /\ "children" \in DOMAIN aresult.tree_structure
    /\ \E s, t \in Descriptors(aresult.tree_structure) :
         /\ s.depth = 1 /\ t.depth = 1
         /\ "has_more_children" \in DOMAIN s /\ s.has_more_children = 1
         /\ DOMAIN t = {"name", "path", "type", "depth"}

\* C30: for max_depth >= 0, total_elements is the number of descriptors of
\* the tree, which is the number of elements (the root included) at depth
\* at most max_depth.
C30_OverviewTotalMatchesTree ==
    (aresult.op = "model_overview" /\ aresult.max_depth >= 0) =>
      /\ aresult.total_elements = Cardinality(Descriptors(aresult.tree_structure))
      /\ aresult.total_elements =
           Cardinality({e \in Elements \cup {RootNode} :
                           Len(GetPath(e)) <= aresult.max_depth})

\* The subtree a search with the given scope covers: the scope element (the
\* root when no scope is given) and everything below it.
ScopeSubtree(scope_path) ==
    LET r == IF scope_path = NoScope THEN RootNode ELSE scope_path
    IN {e \in Elements \cup {RootNode} : HopsBelow(r, e) # NotExpanded}

\* C22: search_by_name with a pattern that compiles returns, each once,
\* exactly the elements of the scoped subtree, the scope element included,
\* whose name the pattern searches and whose type is the filter's when one
\* is given.
C22_SearchByNameCoversScope ==
    (aresult.op = "search_by_name" /\ aresult.path # UnknownPath
       /\ Compile(aresult.pattern).ok) =>
      /\ Members(aresult.elements) =
           {e \in ScopeSubtree(aresult.path) :
               /\ RegexSearch(aresult.pattern, NameChars(Name(e)))
               /\ (aresult.element_type = NoTypeFilter
                     \/ GetType(e) = aresult.element_type)}
      /\ NoRepeats(aresult.elements)

\* A search for "a" scoped to the element named a, which has a child: the
\* scope element is in the result.
C22_Witness ==
    /\ aresult.op = "search_by_name"
    /\ aresult.pattern = <<"a">>
    /\ aresult.path = 1 /\ tname[1] = "a" /\ tparent[2] = 1
    /\ aresult.element_type = NoTypeFilter
    /\ 1 \in Members(aresult.elements)

\* C23: every element search_by_name(".", type = t) returns is returned by
\* get_by_type(t) with the same scope.
C23_NameSearchWithinTypeSearch ==
    (aresult.op = "search_by_name" /\ aresult.pattern = <<".">>
       /\ aresult.element_type # NoTypeFilter) =>
      Members(aresult.elements) \subseteq
        Members(GetElementsByType(aresult.element_type, aresult.path).elements)

\* A search for "." with a type that finds an element, in a graph that
\* also has an element of another type.
C23_Witness ==
    /\ aresult.op = "search_by_name"
    /\ aresult.pattern = <<".">>
    /\ aresult.element_type = "file"
    /\ aresult.elements # <<>>
    /\ \E e \in ScopeSubtree(aresult.path) \ {RootNode} : GetType(e) # "file"

\* C24: for a pattern that does not compile, search_by_name returns the
\* elements whose name the glob translation of the pattern searches, and
\* SearchService and SGraphHelper return the same set.
C24_GlobFallback ==
    (aresult.op = "search_by_name" /\ aresult.path # UnknownPath
       /\ ~Compile(aresult.pattern).ok) =>
      /\ Members(aresult.elements) =
           {e \in ScopeSubtree(aresult.path) :
               /\ RegexSearch(GlobPattern(aresult.pattern), NameChars(Name(e)))
               /\ (aresult.element_type = NoTypeFilter
                     \/ GetType(e) = aresult.element_type)}
      /\ \A v \in SearchVariants :
           Members(aresult.elements) =
             Members(SearchElementsByName(v, aresult.pattern, aresult.element_type,
                                          aresult.path).elements)

\* An element satisfies one filter, in the claim's terms.
Satisfies(e, attr_name, expected_value) ==
    CASE attr_name = "nosuch" -> FALSE
      [] attr_name = "name" /\ expected_value.kind = "str" ->
           IF Compile(expected_value.val).ok
           THEN RegexSearch(expected_value.val, NameChars(Name(e)))
           ELSE NameChars(Name(e)) = expected_value.val
      [] attr_name = "children" /\ expected_value.kind = "list" ->
           Children(e) = {}
      [] OTHER -> FALSE

\* C25: search_by_attributes returns, each once, exactly the elements of the
\* scoped subtree that satisfy every filter: none for a filter on an
\* attribute the elements lack, a regex search for two strings (equality
\* when the expected value does not compile), equality for other values,
\* and every element for the empty filter map.
C25_SearchByAttributes ==
    (aresult.op = "search_by_attributes" /\ aresult.path # UnknownPath) =>
      /\ Members(aresult.elements) =
           {e \in ScopeSubtree(aresult.path) :
               \A attr_name \in DOMAIN aresult.filters :
                  Satisfies(e, attr_name, aresult.filters[attr_name])}
      /\ NoRepeats(aresult.elements)
      /\ DOMAIN aresult.filters = {} =>
           Members(aresult.elements) = ScopeSubtree(aresult.path)

\* Two filters, one on the name with a value that does not compile and
\* one on the children with the empty list: the leaf named "*" is the
\* result, and another leaf is not.
C25_Witness ==
    /\ aresult.op = "search_by_attributes"
    /\ aresult.path = NoScope
    /\ DOMAIN aresult.filters = {"name", "children"}
    /\ aresult.filters["name"] = [kind |-> "str", val |-> <<"*">>]
    /\ aresult.filters["children"] = [kind |-> "list", val |-> <<>>]
    /\ tname[2] = "*"
    /\ Children(3) = {}
    /\ aresult.elements = <<2>>

\* C26: under a fair event loop, with every loader call ending in a result,
\* an exception or the timeout, each load request of SGraphHelper ends with
\* a handle or an error, a load that failed or timed out has released the
\* lock, and each request queued on the lock gets it.
C26_LoadsCompleteAndLockIsPassedOn ==
    /\ \A t \in Tasks :
         (impl = "server" /\ pc[t] # "idle") ~>
            (pc[t] = "idle" /\ event.op = "load" /\ event.kind \in {"ok", "error"})
    /\ \A t \in Tasks : (pc[t] = "waiting") ~> (lockHolder = t)
    /\ [](event.cause \in {"timeout", "loader_raised"} => lockHolder = NoTask)

\* A load has just timed out while another request is queued on the
\* lock: the lock is free for it.
C26_Witness ==
    /\ impl = "server"
    /\ event.cause = "timeout"
    /\ lockHolder = NoTask
    /\ waiters # <<>>

\* The neighbours of e along the associations of direction d, the elements
\* reachable from S, and those within n associations of S.
Neighbours(g, e, d) ==
    {a[2] : a \in {b \in g : d \in {"outgoing", "both"} /\ b[1] = e}}
      \cup {a[1] : a \in {b \in g : d \in {"incoming", "both"} /\ b[2] = e}}
RECURSIVE Reachable(_, _, _)
Reachable(g, S, d) ==
    LET T == S \cup UNION {Neighbours(g, e, d) : e \in S}
    IN IF T = S THEN S ELSE Reachable(g, T, d)
RECURSIVE WithinHops(_, _, _, _)
WithinHops(g, S, d, n) ==
    IF n = 0 THEN S
    ELSE WithinHops(g, S \cup UNION {Neighbours(g, e, d) : e \in S}, d, n - 1)

\* The associations of the requested direction(s) attached to the elements
\* of S, as <<element, neighbour, direction>>.
AttachedTo(g, S, d) ==
    {<<a[1], a[2], "outgoing">> : a \in {b \in g : d \in {"outgoing", "both"} /\ b[1] \in S}}
      \cup {<<a[2], a[1], "incoming">> : a \in {b \in g : d \in {"incoming", "both"} /\ b[2] \in S}}

LastOf(path) == path[Len(path)]

\* C27: with max_depth unset the walk visits exactly the elements reachable
\* from the start; the chain has one record for each of them but the start,
\* its path ending in it, and all_dependencies has one record for each
\* association of the requested direction(s) at each visited element.
C27_ChainCoversReachable ==
    (cphase = "done" /\ cstart \in Elements /\ ~cmax.set) =>
      LET R == Reachable(cgraph, {cstart}, cdir)
      IN /\ visited = R
         /\ {LastOf(chain[i].path) : i \in DOMAIN chain} = R \ {cstart}
         /\ Len(chain) = Cardinality(R \ {cstart})
         /\ {<<allDeps[i].from, allDeps[i].to, allDeps[i].direction>> : i \in DOMAIN allDeps}
              = AttachedTo(cgraph, R, cdir)
         /\ Len(allDeps) = Cardinality(AttachedTo(cgraph, R, cdir))

\* A finished walk over a cycle through all three elements, in both
\* directions.
C27_Witness ==
    /\ cphase = "done" /\ ~cmax.set /\ cdir = "both" /\ cstart = 1
    /\ cgraph = {<<1, 2>>, <<2, 3>>, <<3, 1>>}
    /\ Len(chain) = 2
    /\ Len(allDeps) = 6

\* C28: with max_depth = d every element within d associations of the
\* start is visited and, unless it is the start, has a chain record,
\* whatever the order of the associations and whatever longer paths lead
\* to it.
C28_DepthBoundedCoverage ==
    (cphase = "done" /\ cstart \in Elements /\ cmax.set) =>
      \A e \in WithinHops(cgraph, {cstart}, cdir, cmax.val) :
         /\ e \in visited
         /\ e # cstart => \E i \in DOMAIN chain : LastOf(chain[i].path) = e

\* C29: every chain record starts at the start element, has depth + 1
\* entries, none twice, each next one joined to the one before by an
\* association of a requested direction, and no two records end in the
\* same element.
C29_ChainRecordsWellFormed ==
    /\ \A i \in DOMAIN chain :
         LET path == chain[i].path
         IN /\ path[1] = cstart
            /\ Len(path) = chain[i].depth + 1
            /\ \A j, k \in DOMAIN path : j # k => path[j] # path[k]
            /\ \A j \in 1..(Len(path) - 1) :
                  path[j + 1] \in Neighbours(cgraph, path[j], cdir)
    /\ \A i, j \in DOMAIN chain :
         i # j => LastOf(chain[i].path) # LastOf(chain[j].path)

\* Two records, one of them of depth 2, in a walk against the direction of
\* the associations.
C29_Witness ==
    /\ cphase = "done" /\ cdir = "incoming"
    /\ Len(chain) = 2
    /\ \E i \in DOMAIN chain : chain[i].depth = 2 /\ Len(chain[i].path) = 3
====
